---- MODULE Spec2Model ----
(***************************************************************************)
(* gappa: the `examine edpl` command (run_edpl) as a state machine.        *)
(*                                                                         *)
(* run_edpl reduces the input jplace files in an OpenMP parallel loop      *)
(* (schedule(dynamic)); every loop iteration ("unit") handles one file.    *)
(* The units share the reference tree, the node distance matrix, the       *)
(* progress counter file_count and the running maximum max_edpl; each unit *)
(* owns the slot edpl_values[fi].  After the loop the main thread writes   *)
(* the list file and the histogram file.                                   *)
(*                                                                         *)
(* Real numbers are modelled by integers: every EDPL value of the model is *)
(* a natural number, ratios are kept as numerator/denominator pairs, and   *)
(* the comparisons with 0.75 and 1.25 are cross-multiplied by 4.           *)
(***************************************************************************)
EXTENDS Integers, Sequences, FiniteSets

\* ---------------------------------------------------------------- bounds

\* Largest number of input files of a run.
MaxFiles == 2

\* Size of the OpenMP thread team of a build with GENESIS_OPENMP.
MaxThreads == 2

\* Largest number of histogram bins (--histogram-bins) tried.
MaxBins == 2

\* Largest positive value of --histogram-max tried.
MaxHistMax == 3

\* ---------------------------------------------------------------- inputs

\* A reference tree: its topology (what compatible_trees compares), its
\* node count, and its branch lengths (what the distance matrix is made of).
\* The tree of a freshly constructed Tree object is empty.
Tree(topo, bl) == [topo |-> topo, nodes |-> 3, bl |-> bl]

EmptyTree == [topo |-> 0, nodes |-> 0, bl |-> 0]

EmptyMatrix == [rows |-> 0, cols |-> 0, scale |-> 0]

PqueryName(n, m) == [name |-> n, multiplicity |-> m]

\* A pquery: its names, and the spread of its placement locations, from
\* which edpl() computes the value together with the distance matrix.
Pquery(names, spread) == [names |-> names, spread |-> spread]

\* Samples (jplace files) that a run may be given.
SampleA ==
    [ tree     |-> Tree(1, 1),
      pqueries |-> << Pquery(<< PqueryName("a", 1) >>, 2),
                      Pquery(<< PqueryName("b", 2), PqueryName("c", 1) >>, 1) >> ]

\* Same topology as SampleA, other branch lengths; its pquery has no name.
SampleB ==
    [ tree     |-> Tree(1, 2),
      pqueries |-> << Pquery(<< >>, 1) >> ]

\* Another topology: incompatible with SampleA and SampleB.
SampleC ==
    [ tree     |-> Tree(2, 1),
      pqueries |-> << Pquery(<< PqueryName("d", 3) >>, 3) >> ]

\* Same tree as SampleA; its only pquery has a single placement location, so
\* that its EDPL is 0.
SampleD ==
    [ tree     |-> Tree(1, 1),
      pqueries |-> << Pquery(<< PqueryName("e", 2) >>, 0) >> ]

Samples == { SampleA, SampleB, SampleC, SampleD }

\* ------------------------------------------------------- library functions

\* -std::numeric_limits<double>::infinity(): a value below every EDPL value.
NegInf == -1

IsFinite(x) == x # NegInf

\* a < b on doubles, with NegInf the least element.
Less(a, b) == a # b /\ (a = NegInf \/ (b # NegInf /\ a < b))

\* std::max( a, b ): returns b when a < b, else a.
StdMax(a, b) == IF Less(a, b) THEN b ELSE a

\* Tree::empty()
TreeEmpty(t) == t.nodes = 0

\* genesis::placement::compatible_trees: topological compatibility of two
\* reference trees; branch lengths are not compared.
compatible_trees(lhs, rhs) == lhs.topo = rhs.topo

\* node_branch_length_distance_matrix( tree ): a square matrix over the
\* nodes of the tree whose entries are sums of branch lengths.
node_branch_length_distance_matrix(t) ==
    [rows |-> t.nodes, cols |-> t.nodes, scale |-> t.bl]

\* edpl( pquery, node_distances ): the expected distance between the
\* placement locations of the pquery, measured in the given matrix.
edpl(pquery, nd) == pquery.spread * nd.scale

RECURSIVE SumMult(_)
SumMult(names) ==
    IF names = << >> THEN 0
    ELSE names[1].multiplicity + SumMult(Tail(names))

\* total_multiplicity( pquery ): the sum of the multiplicities of its names.
total_multiplicity(pquery) == SumMult(pquery.names)

NameEdpl(name, mult, edplv) == [name |-> name, mult |-> mult, edpl |-> edplv]

\* Without name tracking every pquery counted once, whatever its multiplicity.
RecordsOfUnitWeight(pquery, edplv, no_list) ==
    IF no_list
    THEN << NameEdpl("", 1, edplv) >>
    ELSE [ k \in 1..Len(pquery.names) |->
             NameEdpl(pquery.names[k].name, pquery.names[k].multiplicity, edplv) ]

\* One record per pquery even when names are tracked.
RecordsOfFirstNameOnly(pquery, edplv, no_list) ==
    IF no_list \/ pquery.names = << >>
    THEN << NameEdpl("", total_multiplicity(pquery), edplv) >>
    ELSE << NameEdpl(pquery.names[1].name, pquery.names[1].multiplicity, edplv) >>

\* Every record of a pquery given the total multiplicity of the pquery.
RecordsOfTotalForEachName(pquery, edplv, no_list) ==
    IF no_list
    THEN << NameEdpl("", total_multiplicity(pquery), edplv) >>
    ELSE [ k \in 1..Len(pquery.names) |->
             NameEdpl(pquery.names[k].name, total_multiplicity(pquery), edplv) ]

\* The records pushed to temp for one pquery (lines 636-643).
RecordsOf(pquery, edplv, no_list) ==
    IF no_list
    THEN << NameEdpl("", total_multiplicity(pquery), edplv) >>
    ELSE [ k \in 1..Len(pquery.names) |->
             NameEdpl(pquery.names[k].name, pquery.names[k].multiplicity, edplv) ]

\* ------------------------------------------- dispersion: doubles (IEEE 754)

\* A double of the dispersion command is a fraction [n, d] in lowest terms:
\* d > 0 is the finite value n/d, d = 0 is +infinity (n = 1), -infinity
\* (n = -1) or NaN (n = 0).
Abs(x) == IF x < 0 THEN -x ELSE x

RECURSIVE Gcd(_, _)
Gcd(a, b) == IF b = 0 THEN a ELSE Gcd(b, a % b)

Real(n, d) ==
    IF d = 0 THEN [n |-> IF n > 0 THEN 1 ELSE IF n < 0 THEN -1 ELSE 0, d |-> 0]
    ELSE LET g == Gcd(Abs(n), Abs(d))
             s == IF d < 0 THEN -1 ELSE 1
         IN  [n |-> s * (Abs(n) \div g) * (IF n < 0 THEN -1 ELSE 1), d |-> Abs(d) \div g]

Zero == Real(0, 1)

One == Real(1, 1)

NaN == Real(0, 0)

\* std::isfinite
IsFiniteReal(x) == x.d # 0

\* a < b: false when either side is NaN.
LessReal(a, b) ==
    IF IsFiniteReal(a) /\ IsFiniteReal(b) THEN a.n * b.d < b.n * a.d
    ELSE IF a = NaN \/ b = NaN THEN FALSE
    ELSE IF IsFiniteReal(a) THEN b.n > 0
    ELSE IF IsFiniteReal(b) THEN a.n < 0
    ELSE a.n < b.n

\* a * b: infinity times zero is NaN.
MulReal(a, b) ==
    IF a = NaN \/ b = NaN THEN NaN ELSE Real(a.n * b.n, a.d * b.d)

\* a / b: a finite value over zero is an infinity, 0/0 and inf/inf are NaN.
DivReal(a, b) ==
    IF a = NaN \/ b = NaN THEN NaN
    ELSE Real(a.n * b.d * (IF b.n < 0 THEN -1 ELSE 1), a.d * Abs(b.n))

\* ------------------------------------------------ dispersion: the options

\* --edge-values (lines 107-117)
EdgeValuesChoices == { "both", "imbalances", "masses" }

\* --method (lines 119-137)
MethodChoices ==
    { "all", "cv", "cv-log", "sd", "sd-log", "var", "var-log", "vmr", "vmr-log" }

\* A variant that takes the name of its kind only.
VariantNamedByKind(n, m, d, l) ==
    [name |-> IF m = "kMasses" THEN "masses" ELSE "imbalances",
     edge_values |-> m, dispersion_method |-> d, log_scaling |-> l]

\* struct DispersionVariant (lines 56-83)
DispersionVariant(n, m, d, l) ==
    [name |-> n, edge_values |-> m, dispersion_method |-> d, log_scaling |-> l]

\* ( options.method == "all" ) || ( options.method == m )
MethodIs(options, m) == options.method = "all" \/ options.method = m

\* A push_back that is not guarded by the method.
PushBackAlways(cond, v) == << v >>

\* if( cond ) { variants.push_back( v ); }
PushBackIf(cond, v) == IF cond THEN << v >> ELSE << >>

\* The block of lines 174-203 with imbalances in the place of masses.
ImbalancesLikeMasses(options) ==
      PushBackIf(MethodIs(options, "sd"),
          DispersionVariant("imbalances_sd", "kImbalances", "kStandardDeviation", FALSE))
   \o PushBackIf(MethodIs(options, "var"),
          DispersionVariant("imbalances_var", "kImbalances", "kVariance", FALSE))
   \o PushBackIf(MethodIs(options, "cv"),
          DispersionVariant("imbalances_cv", "kImbalances", "kCoeffcientOfVariation", FALSE))
   \o PushBackIf(MethodIs(options, "vmr"),
          DispersionVariant("imbalances_vmr", "kImbalances", "kIndexOfDispersion", FALSE))
   \o PushBackIf(MethodIs(options, "sd-log"),
          DispersionVariant("imbalances_sd_log", "kImbalances", "kStandardDeviation", TRUE))
   \o PushBackIf(MethodIs(options, "var-log"),
          DispersionVariant("imbalances_var_log", "kImbalances", "kVariance", TRUE))
   \o PushBackIf(MethodIs(options, "cv-log"),
          DispersionVariant("imbalances_cv_log", "kImbalances", "kCoeffcientOfVariation", TRUE))
   \o PushBackIf(MethodIs(options, "vmr-log"),
          DispersionVariant("imbalances_vmr_log", "kImbalances", "kIndexOfDispersion", TRUE))

\* Lines 176-202: the masses variants, linear before log scaled.
MassesVariants(options) ==
      PushBackIf(MethodIs(options, "sd"),
          DispersionVariant("masses_sd", "kMasses", "kStandardDeviation", FALSE))
   \o PushBackIf(MethodIs(options, "var"),
          DispersionVariant("masses_var", "kMasses", "kVariance", FALSE))
   \o PushBackIf(MethodIs(options, "cv"),
          DispersionVariant("masses_cv", "kMasses", "kCoeffcientOfVariation", FALSE))
   \o PushBackIf(MethodIs(options, "vmr"),
          DispersionVariant("masses_vmr", "kMasses", "kIndexOfDispersion", FALSE))
   \o PushBackIf(MethodIs(options, "sd-log"),
          DispersionVariant("masses_sd_log", "kMasses", "kStandardDeviation", TRUE))
   \o PushBackIf(MethodIs(options, "var-log"),
          DispersionVariant("masses_var_log", "kMasses", "kVariance", TRUE))
   \o PushBackIf(MethodIs(options, "cv-log"),
          DispersionVariant("masses_cv_log", "kMasses", "kCoeffcientOfVariation", TRUE))
   \o PushBackIf(MethodIs(options, "vmr-log"),
          DispersionVariant("masses_vmr_log", "kMasses", "kIndexOfDispersion", TRUE))

\* Lines 208-222: the imbalances variants; only sd and var.
ImbalancesVariants(options) ==
      PushBackIf(MethodIs(options, "sd"),
          DispersionVariant("imbalances_sd", "kImbalances", "kStandardDeviation", FALSE))
   \o PushBackIf(MethodIs(options, "var"),
          DispersionVariant("imbalances_var", "kImbalances", "kVariance", FALSE))
   \o PushBackIf(MethodIs(options, "sd-log"),
          DispersionVariant("imbalances_sd_log", "kImbalances", "kStandardDeviation", TRUE))
   \o PushBackIf(MethodIs(options, "var-log"),
          DispersionVariant("imbalances_var_log", "kImbalances", "kVariance", TRUE))

\* ( options.edge_values == "both" ) || ( options.edge_values == kind )
EdgeValuesIs(options, kind) ==
    options.edge_values = "both" \/ options.edge_values = kind

\* The two blocks of get_variants in the other order.
ImbalancesBeforeMasses(options) ==
      (IF EdgeValuesIs(options, "imbalances") THEN ImbalancesVariants(options) ELSE << >>)
   \o (IF EdgeValuesIs(options, "masses") THEN MassesVariants(options) ELSE << >>)

\* get_variants (lines 169-226)
get_variants(options) ==
      (IF EdgeValuesIs(options, "masses") THEN MassesVariants(options) ELSE << >>)
   \o (IF EdgeValuesIs(options, "imbalances") THEN ImbalancesVariants(options) ELSE << >>)

\* ---------------------------------------------- dispersion: the input data

\* genesis::utils::Matrix<double>: the rows are samples, the columns edges.
Matrix(cols, data) == [rows |-> Len(data), cols |-> cols, data |-> data]

\* The placement profile of the input: both matrices and the tree.
PlacementProfile(masses, imbalances, edges) ==
    [edge_masses |-> masses, edge_imbalances |-> imbalances,
     tree |-> [edge_count |-> edges]]

NoProfile == PlacementProfile(Matrix(0, << >>), Matrix(0, << >>), 0)

\* No sample at all.
ProfileNone == PlacementProfile(Matrix(2, << >>), Matrix(2, << >>), 2)

\* A single sample.
ProfileSingle ==
    PlacementProfile(Matrix(2, << <<1, 2>> >>), Matrix(2, << <<1, 0>> >>), 2)

\* Two equal samples: every standard deviation is zero.
ProfileFlat ==
    PlacementProfile(Matrix(2, << <<1, 1>>, <<1, 1>> >>),
                     Matrix(2, << <<0, 0>>, <<0, 0>> >>), 2)

\* Two samples whose largest standard deviation is exactly 1.
ProfileSmall ==
    PlacementProfile(Matrix(2, << <<0, 1>>, <<2, 1>> >>),
                     Matrix(2, << <<-1, 0>>, <<1, 0>> >>), 2)

\* Two samples whose largest standard deviation is above 1.
ProfileLarge ==
    PlacementProfile(Matrix(2, << <<0, 2>>, <<4, 2>> >>),
                     Matrix(2, << <<-3, 0>>, <<1, 2>> >>), 2)

\* Matrices of one column for a tree of two edges.
ProfileMismatch ==
    PlacementProfile(Matrix(1, << <<0>>, <<2>> >>),
                     Matrix(1, << <<-1>>, <<1>> >>), 2)

\* The largest number of columns of a matrix of the profiles.
MaxCols == 2

Profiles ==
    { ProfileNone, ProfileSingle, ProfileFlat, ProfileSmall, ProfileLarge,
      ProfileMismatch }

\* ------------------------------------------ dispersion: library functions

\* The first column, whichever column is asked for.
ColFirst(data, c) == [ r \in 1..data.rows |-> data.data[r][1] ]

\* data.col( c )
Col(data, c) == [ r \in 1..data.rows |-> data.data[r][c] ]

RECURSIVE SumOf(_)
SumOf(col) == IF col = << >> THEN 0 ELSE col[1] + SumOf(Tail(col))

\* The square root; exact for the squares, which is all the profiles need.
ISqrt(x) == CHOOSE r \in 0..x : r * r <= x /\ (r + 1) * (r + 1) > x

\* mean_stddev( first, last ): the mean and the (population) standard
\* deviation sqrt( sum (x - mean)^2 / n ) of the values of a column.
mean_stddev(col) ==
    LET n     == Len(col)
        sum   == SumOf(col)
        sumsq == SumOf([ k \in 1..n |-> col[k] * col[k] ])
    IN  IF n = 0 THEN [mean |-> Zero, stddev |-> Zero]
        ELSE [mean |-> Real(sum, n), stddev |-> Real(ISqrt(n * sumsq - sum * sum), n)]

\* ColorNormalization::autoscale_max( values ): the largest finite value;
\* NaN stands for the maximum of a vector without any finite value.
autoscale_max(values) ==
    LET finite == { k \in 1..Len(values) : IsFiniteReal(values[k]) }
    IN  IF finite = { } THEN NaN
        ELSE values[CHOOSE k \in finite : \A j \in finite : ~ LessReal(values[k], values[j])]

\* --------------------------------------------- dispersion: the color tree

\* The literal 10e4 of line 263.
FloorDivisor == 100000

\* Lines 260-264: the minimum of the logarithmic normalization.
LogFloor(max_value) ==
    IF LessReal(One, max_value) THEN One
    ELSE DivReal(max_value, Real(FloorDivisor, 1))

\* Line 242: values.size() != tree.edge_count()
ValuesMisfit(values, tr) == Len(values) # tr.edge_count

\* Lines 246-277: what make_dispersion_color_tree hands to
\* write_tree_to_files: the normalization with its range, the clipping
\* flag of the color map, the values and the infix of the file name.
ColorTree(values, log_scaling, infix) ==
    [ infix       |-> infix,
      values      |-> values,
      logarithmic |-> log_scaling,
      max_value   |-> autoscale_max(values),
      min_set     |-> log_scaling,
      min_value   |-> IF log_scaling THEN LogFloor(autoscale_max(values)) ELSE Zero,
      clip_under  |-> log_scaling ]

\* ------------------------------------------------------------------ state

VARIABLES
    files,          \* options.jplace_input: the samples, in input order
    no_list_file,   \* options.no_list_file
    openmp,         \* whether the build defines GENESIS_OPENMP
    tree,           \* the shared reference tree
    node_distances, \* the shared node distance matrix
    file_count,     \* the progress counter
    max_edpl,       \* the running maximum
    edpl_values,    \* the result: one slot per file
    lock,           \* holder of critical(GAPPA_EDPL_TREE), 0 when free
    next_fi,        \* the next iteration the dynamic schedule hands out
    unit,           \* per thread: pc, fi and the locals of its iteration
    main_pc,        \* position of the main thread in run_edpl
    outcome,        \* running | returned | exception | terminated
    messages,       \* how often "Processing file k of N" was printed, per k
    list_out,       \* rows of edpl_list.csv
    hist_opts,      \* options.histogram_bins / histogram_max, once read
    hist_max,       \* the upper bound of the histogram
    hist,           \* the bins of the histogram
    hist_out,       \* rows of edpl_histogram.csv
    files_open,     \* output targets opened
    warnings,       \* LOG_WARN diagnostics
    history,        \* bookkeeping for the properties (not program state)
    disp_opts,      \* dispersion: options.edge_values and options.method
    variants,       \* dispersion: the list returned by get_variants
    profile,        \* dispersion: the placement profile, once read
    disp_pc,        \* dispersion: position in run_dispersion
    frame,          \* dispersion: the locals of the run_with_matrix call
    trees_out,      \* dispersion: the calls of write_tree_to_files
    disp_outcome    \* dispersion: running | returned | the error thrown

vars == << files, no_list_file, openmp, tree, node_distances, file_count,
           max_edpl, edpl_values, lock, next_fi, unit, main_pc, outcome,
           messages, list_out, hist_opts, hist_max, hist, hist_out,
           files_open, warnings, history,
           disp_opts, variants, profile, disp_pc, frame, trees_out,
           disp_outcome >>

\* The state of the `analyze dispersion` command (run_dispersion).
dispersion == << disp_opts, variants, profile, disp_pc, frame, trees_out,
                 disp_outcome >>

shared == << tree, node_distances, file_count, max_edpl, edpl_values, lock >>

inputs == << files, no_list_file, openmp >>

output == << list_out, hist_opts, hist_max, hist, hist_out, files_open, warnings >>

NumFiles == Len(files)

Threads == 1..MaxThreads

\* Threads of the team: all of them with OpenMP, the main thread without.
TeamSize == IF openmp THEN MaxThreads ELSE 1

IdleUnit == [pc |-> "idle", fi |-> 0, reg |-> 0, edplv |-> 0, pi |-> 0, temp |-> << >>]

RECURSIVE SeqsUpTo(_, _)
SeqsUpTo(S, n) ==
    IF n = 0 THEN { << >> }
    ELSE LET shorter == SeqsUpTo(S, n - 1)
         IN  shorter \cup { Append(s, x) : s \in { q \in shorter : Len(q) = n - 1 }, x \in S }

\* The locals of a run_with_matrix call: the kind of the matrix, the vectors
\* of lines 320-324, and the position of the loop over the variants.
NoFrame ==
    [ edge_values |-> "none", mean_stddev |-> << >>, sd_vec |-> << >>,
      var_vec |-> << >>, cv_vec |-> << >>, vmr_vec |-> << >>, vi |-> 0,
      cols_done |-> { } ]

\* The command line names one command: in a run of `examine edpl`,
\* run_dispersion is not entered.
DispersionNotRun ==
    /\ disp_opts = [edge_values |-> "both", method |-> "all"]
    /\ variants = << >>
    /\ profile = NoProfile
    /\ disp_pc = "not_run"
    /\ frame = NoFrame
    /\ trees_out = << >>
    /\ disp_outcome = "not_run"

Init ==
    /\ files \in { s \in SeqsUpTo(Samples, MaxFiles) : Len(s) >= 1 }
    /\ no_list_file \in BOOLEAN
    /\ openmp \in BOOLEAN
    /\ tree = EmptyTree
    /\ node_distances = EmptyMatrix
    /\ file_count = 0
    /\ max_edpl = NegInf
    /\ edpl_values = [ f \in 1..Len(files) |-> << >> ]
    /\ lock = 0
    /\ next_fi = 1
    /\ unit = [ t \in Threads |-> IdleUnit ]
    /\ main_pc = "loop"
    /\ outcome = "running"
    /\ messages = [ k \in 1..Len(files) |-> 0 ]
    /\ list_out = << >>
    /\ hist_opts = [bins |-> 0, max |-> 0]
    /\ hist_max = 0
    /\ hist = << >>
    /\ hist_out = << >>
    /\ files_open = { }
    /\ warnings = { }
    /\ DispersionNotRun
    /\ history = [ tree_writes |-> 0, dist_writes |-> 0, initialisers |-> { },
                   first_entered |-> 0, out_of_order |-> FALSE,
                   checked |-> { }, mismatch |-> { }, stores |-> { },
                   edpl_calls |-> { } ]

\* ------------------------------------------------- the parallel loop (587-646)

Sample(t) == files[unit[t].fi]

At(t, where) == unit[t].pc = where

InLoop == main_pc = "loop" /\ outcome = "running"

\* The critical section entered without regard to its holder.
CriticalAlwaysFree(holder) == TRUE

\* #pragma omp critical(GAPPA_EDPL_TREE): a unit enters when no unit holds it.
CriticalFree(holder) == holder = 0

\* The initialising branch taken by every unit.
NeedsInitAlways(tr, nd) == TRUE

\* if( tree.empty() ), line 601
NeedsInit(tr, nd) == TreeEmpty(tr)

\* The results appended to a shared sequence in completion order.
StoreSlotAppend(f, nstored) == nstored + 1

\* Every unit writing the slot of the first file.
StoreSlotFirst(f, nstored) == 1

\* edpl_values[fi] = temp, line 645: the slot a unit writes.
StoreSlot(f, nstored) == f

\* A throw that leaves the loop body.  Inside an OpenMP parallel region the
\* exception is not caught by the thread that threw it: std::terminate ends
\* the process, and with it every unit in flight.  In a build without
\* OpenMP the loop is an ordinary loop and the exception leaves run_edpl.
\* The exception caught in the loop body and dropped: the loop goes on.
ThrowSwallowed(t) ==
    [ units   |-> [unit EXCEPT ![t] = IdleUnit],
      outcome |-> "running" ]

ThrowEffect(t) ==
    [ units   |-> [ u \in Threads |->
                      IF u = t THEN [unit[u] EXCEPT !.pc = "threw"]
                      ELSE IF openmp /\ unit[u].pc # "idle"
                           THEN [unit[u] EXCEPT !.pc = "killed"]
                           ELSE unit[u] ],
      outcome |-> IF openmp THEN "terminated" ELSE "exception" ]

\* The check of line 605 never failing.
MismatchNever(tr, sample_tree) == FALSE

\* else if( ! compatible_trees( tree, sample.tree() ) ), line 605
Mismatch(tr, sample_tree) == ~ compatible_trees(tr, sample_tree)

\* schedule(dynamic): an idle thread of the team takes the next iteration.
\* The threads of a team are interchangeable: of the idle ones, the one with
\* the least number stands for all of them.
Grab(t) ==
    /\ InLoop
    /\ t <= TeamSize
    /\ At(t, "idle")
    /\ \A u \in 1..(t - 1) : ~ At(u, "idle")
    /\ next_fi <= NumFiles
    /\ unit' = [unit EXCEPT ![t] = [IdleUnit EXCEPT !.pc = "log_read", !.fi = next_fi]]
    /\ next_fi' = next_fi + 1
    /\ UNCHANGED << dispersion, inputs, shared, main_pc, outcome, messages, output, history >>

\* ++file_count, line 591: the load.
LogRead(t) ==
    /\ InLoop
    /\ At(t, "log_read")
    /\ unit' = [unit EXCEPT ![t].reg = file_count, ![t].pc = "log_write"]
    /\ UNCHANGED << dispersion, inputs, shared, next_fi, main_pc, outcome, messages, output, history >>

\* ++file_count, line 591: the store, and the message; the sample is read.
LogWrite(t) ==
    /\ InLoop
    /\ At(t, "log_write")
    /\ file_count' = unit[t].reg + 1
    /\ messages' = [messages EXCEPT ![unit[t].reg + 1] = @ + 1]
    /\ unit' = [unit EXCEPT ![t].reg = 0, ![t].pc = "crit_enter"]
    /\ UNCHANGED << dispersion, inputs, tree, node_distances, max_edpl, edpl_values, lock,
                    next_fi, main_pc, outcome, output, history >>

\* Lines 598-601: enter the critical section and test tree.empty().
CritEnter(t) ==
    /\ InLoop
    /\ At(t, "crit_enter")
    /\ CriticalFree(lock)
    /\ lock' = t
    /\ unit' = [unit EXCEPT ![t].pc =
                   IF NeedsInit(tree, node_distances) THEN "crit_init" ELSE "crit_compat"]
    /\ history' = [history EXCEPT !.first_entered = IF @ = 0 THEN unit[t].fi ELSE @]
    /\ UNCHANGED << dispersion, inputs, tree, node_distances, file_count, max_edpl, edpl_values,
                    next_fi, main_pc, outcome, messages, output >>

\* tree = sample.tree(), line 603
CritInit(t) ==
    /\ InLoop
    /\ At(t, "crit_init")
    /\ tree' = Sample(t).tree
    /\ history' = [history EXCEPT !.tree_writes = @ + 1,
                                  !.initialisers = @ \cup { unit[t].fi }]
    /\ unit' = [unit EXCEPT ![t].pc = "crit_dist"]
    /\ UNCHANGED << dispersion, inputs, node_distances, file_count, max_edpl, edpl_values, lock,
                    next_fi, main_pc, outcome, messages, output >>

\* node_distances = node_branch_length_distance_matrix( tree ), line 604
CritDist(t) ==
    /\ InLoop
    /\ At(t, "crit_dist")
    /\ node_distances' = node_branch_length_distance_matrix(tree)
    /\ history' = [history EXCEPT !.dist_writes = @ + 1]
    /\ unit' = [unit EXCEPT ![t].pc = "crit_exit"]
    /\ UNCHANGED << dispersion, inputs, tree, file_count, max_edpl, edpl_values, lock,
                    next_fi, main_pc, outcome, messages, output >>

\* Lines 605-607: the compatibility check of a later sample, and the throw.
CritCompat(t) ==
    /\ InLoop
    /\ At(t, "crit_compat")
    /\ IF Mismatch(tree, Sample(t).tree)
       THEN /\ unit' = ThrowEffect(t).units
            /\ history' = [history EXCEPT !.mismatch = @ \cup { unit[t].fi }]
            /\ outcome' = ThrowEffect(t).outcome
       ELSE /\ unit' = [unit EXCEPT ![t].pc = "crit_exit"]
            /\ history' = [history EXCEPT !.checked = @ \cup { unit[t].fi }]
            /\ UNCHANGED outcome
    /\ UNCHANGED << dispersion, inputs, shared, next_fi, main_pc, messages, output >>

\* Line 609: leave the critical section.
CritExit(t) ==
    /\ InLoop
    /\ At(t, "crit_exit")
    /\ lock' = 0
    /\ unit' = [unit EXCEPT ![t].pc = "safety"]
    /\ UNCHANGED << dispersion, inputs, tree, node_distances, file_count, max_edpl, edpl_values,
                    next_fi, main_pc, outcome, messages, output, history >>

\* Lines 612-627: the dimension check, then temp is set up.
Safety(t) ==
    /\ InLoop
    /\ At(t, "safety")
    /\ IF \/ TreeEmpty(tree)
          \/ node_distances.rows # tree.nodes
          \/ node_distances.cols # tree.nodes
       THEN /\ unit' = ThrowEffect(t).units
            /\ outcome' = ThrowEffect(t).outcome
       ELSE /\ unit' = [unit EXCEPT ![t].temp = << >>, ![t].pi = 1,
                          ![t].pc = IF Sample(t).pqueries = << >> THEN "store" ELSE "pq_edpl"]
            /\ UNCHANGED outcome
    /\ UNCHANGED << dispersion, inputs, shared, next_fi, main_pc, messages, output, history >>

\* Lines 630-631: edpl() of the pquery, and the load of max_edpl.
PqEdpl(t) ==
    /\ InLoop
    /\ At(t, "pq_edpl")
    /\ unit' = [unit EXCEPT ![t].edplv = edpl(Sample(t).pqueries[unit[t].pi], node_distances),
                            ![t].reg = max_edpl,
                            ![t].pc = "pq_max"]
    /\ history' = [history EXCEPT !.edpl_calls = @ \cup
          { << unit[t].fi, unit[t].pi,
               1 + Cardinality({ c \in @ : c[1] = unit[t].fi /\ c[2] = unit[t].pi }) >> }]
    /\ UNCHANGED << dispersion, inputs, shared, next_fi, main_pc, outcome, messages, output >>

\* Lines 631-643: the store of max_edpl, and the records of the pquery.
PqMax(t) ==
    /\ InLoop
    /\ At(t, "pq_max")
    /\ max_edpl' = StdMax(unit[t].reg, unit[t].edplv)
    /\ unit' = [unit EXCEPT
          ![t].temp = @ \o RecordsOf(Sample(t).pqueries[unit[t].pi], unit[t].edplv, no_list_file),
          ![t].pi = @ + 1,
          ![t].reg = 0,
          ![t].edplv = 0,
          ![t].pc = IF unit[t].pi < Len(Sample(t).pqueries) THEN "pq_edpl" ELSE "store"]
    /\ UNCHANGED << dispersion, inputs, tree, node_distances, file_count, edpl_values, lock,
                    next_fi, main_pc, outcome, messages, output, history >>

\* edpl_values[fi] = temp, line 645; the iteration is over.
Store(t) ==
    /\ InLoop
    /\ At(t, "store")
    /\ LET slot == StoreSlot(unit[t].fi, Cardinality(history.stores))
       IN  /\ slot \in 1..NumFiles
           /\ edpl_values' = [edpl_values EXCEPT ![slot] = unit[t].temp]
           /\ history' = [history EXCEPT !.stores = @ \cup
                 { << unit[t].fi, slot,
                      1 + Cardinality({ w \in @ : w[2] = slot }) >> },
                                      !.out_of_order = @ \/
                 \E f \in 1..(unit[t].fi - 1) : \A w \in history.stores : w[1] # f]
    /\ unit' = [unit EXCEPT ![t] = IdleUnit]
    /\ UNCHANGED << dispersion, inputs, tree, node_distances, file_count, max_edpl, lock,
                    next_fi, main_pc, outcome, messages, output >>

Unit(t) ==
    \/ Grab(t) \/ LogRead(t) \/ LogWrite(t)
    \/ CritEnter(t) \/ CritInit(t) \/ CritDist(t) \/ CritCompat(t) \/ CritExit(t)
    \/ Safety(t) \/ PqEdpl(t) \/ PqMax(t) \/ Store(t)

\* ------------------------------------------------ after the loop (648-716)

\* The implicit barrier at the end of the parallel loop.
LoopEnd ==
    /\ InLoop
    /\ next_fi > NumFiles
    /\ \A t \in Threads : At(t, "idle")
    /\ main_pc' = "write_list"
    /\ UNCHANGED << dispersion, inputs, shared, next_fi, unit, outcome, messages, output, history >>

RECURSIVE ListRows(_, _, _)
\* Lines 657-664: the rows of the files fi..n, each with its file index.
ListRows(values, fi, n) ==
    IF fi > n THEN << >>
    ELSE [ k \in 1..Len(values[fi]) |->
             [ file |-> fi, name |-> values[fi][k].name,
               mult |-> values[fi][k].mult, edpl |-> values[fi][k].edpl ] ]
         \o ListRows(values, fi + 1, n)

\* Lines 651-665: the list file, unless --no-list-file is set.
WriteList ==
    /\ main_pc = "write_list"
    /\ IF no_list_file
       THEN UNCHANGED << list_out, files_open >>
       ELSE /\ files_open' = files_open \cup { "edpl_list" }
            /\ list_out' = ListRows(edpl_values, 1, NumFiles)
    /\ main_pc' = "hist_bounds"
    /\ UNCHANGED << dispersion, inputs, shared, next_fi, unit, outcome, messages,
                    hist_opts, hist_max, hist, hist_out, warnings, history >>

\* The values of --histogram-max tried: negative (the default), zero, positive.
HistMaxChoices == { -1 } \cup 0..MaxHistMax

\* Line 668: histogram_max < 0.75 * max_edpl
BelowThreeQuarters(hm, mx) == IsFinite(mx) /\ 4 * hm < 3 * mx

\* Line 674: histogram_max > 1.25 * max_edpl
AboveFiveQuarters(hm, mx) == ~ IsFinite(mx) \/ 4 * hm > 5 * mx

\* Line 680: ! std::isfinite( max_edpl ) || max_edpl == 0.0
Degenerate(mx) == ~ IsFinite(mx) \/ mx = 0

\* Lines 667-691: the warnings, the substitution of 1.0, and hist_max.  The
\* options histogram_bins and histogram_max are read here for the first time.
HistBounds ==
    /\ main_pc = "hist_bounds"
    /\ \E bins \in 1..MaxBins, hm \in HistMaxChoices :
         LET mx == IF Degenerate(max_edpl) THEN 1 ELSE max_edpl
         IN  /\ hist_opts' = [bins |-> bins, max |-> hm]
             /\ warnings' = warnings
                  \cup (IF hm > 0 /\ BelowThreeQuarters(hm, max_edpl) THEN { "below_75" } ELSE { })
                  \cup (IF hm > 0 /\ AboveFiveQuarters(hm, max_edpl) THEN { "above_125" } ELSE { })
                  \cup (IF Degenerate(max_edpl) THEN { "degenerate_max" } ELSE { })
             /\ max_edpl' = mx
             /\ hist_max' = IF hm < 0 THEN mx ELSE hm
    /\ main_pc' = "hist_fill"
    /\ UNCHANGED << dispersion, inputs, tree, node_distances, file_count, edpl_values, lock, next_fi,
                    unit, outcome, messages, list_out, hist, hist_out, files_open, history >>

\* Histogram::find_bin: -1 below the range, bins at or above its end.
find_bin(x, bins, hmax) ==
    IF x < 0 THEN -1
    ELSE IF x >= hmax THEN bins
    ELSE (x * bins) \div hmax

\* Histogram::accumulate: values out of range are squeezed into the end bins.
accumulate(h, x, weight, hmax) ==
    LET found == find_bin(x, Len(h), hmax)
        bin   == IF found < 0 THEN 0 ELSE IF found >= Len(h) THEN Len(h) - 1 ELSE found
    IN  [h EXCEPT ![bin + 1] = @ + weight]

RECURSIVE AccumulateInRangeOnly(_, _, _)
\* A fill that drops the values at or above the upper bound.
AccumulateInRangeOnly(h, rows, hmax) ==
    IF rows = << >> THEN h
    ELSE AccumulateInRangeOnly(
             IF rows[1].edpl >= hmax THEN h
             ELSE accumulate(h, rows[1].edpl, rows[1].mult, hmax),
             Tail(rows), hmax)

RECURSIVE AccumulateAll(_, _, _)
\* Lines 695-699: every record of every slot, in file order.
AccumulateAll(h, rows, hmax) ==
    IF rows = << >> THEN h
    ELSE AccumulateAll(accumulate(h, rows[1].edpl, rows[1].mult, hmax), Tail(rows), hmax)

\* Lines 694-699.  Histogram( bins, 0.0, hist_max ) throws for an empty range.
HistFill ==
    /\ main_pc = "hist_fill"
    /\ IF hist_max <= 0
       THEN /\ outcome' = "exception"
            /\ main_pc' = "unwound"
            /\ UNCHANGED hist
       ELSE /\ hist' = AccumulateAll([ i \in 1..hist_opts.bins |-> 0 ],
                                     ListRows(edpl_values, 1, NumFiles), hist_max)
            /\ main_pc' = "hist_write"
            /\ UNCHANGED outcome
    /\ UNCHANGED << dispersion, inputs, shared, next_fi, unit, messages, list_out, hist_opts,
                    hist_max, hist_out, files_open, warnings, history >>

RECURSIVE SumTo(_, _)
SumTo(h, n) == IF n = 0 THEN 0 ELSE h[n] + SumTo(h, n - 1)

\* Rows whose accumulated columns repeat the value of the bin.
HistRowsWithoutSum(h, hmax) ==
    [ i \in 1..Len(h) |->
        [ bin       |-> i - 1,
          start     |-> << (i - 1) * hmax, Len(h) >>,
          end       |-> << i * hmax, Len(h) >>,
          value     |-> h[i],
          percent   |-> << h[i], SumTo(h, Len(h)) >>,
          acc       |-> h[i],
          acc_pct   |-> << h[i], SumTo(h, Len(h)) >> ] ]

\* Lines 707-715: the rows of the histogram file; ratios as pairs.
HistRows(h, hmax) ==
    [ i \in 1..Len(h) |->
        [ bin       |-> i - 1,
          start     |-> << (i - 1) * hmax, Len(h) >>,
          end       |-> << i * hmax, Len(h) >>,
          value     |-> h[i],
          percent   |-> << h[i], SumTo(h, Len(h)) >>,
          acc       |-> SumTo(h, i),
          acc_pct   |-> << SumTo(h, i), SumTo(h, Len(h)) >> ] ]

\* Lines 702-715: the histogram file, one row per bin.
WriteHist ==
    /\ main_pc = "hist_write"
    /\ files_open' = files_open \cup { "edpl_histogram" }
    /\ hist_out' = HistRows(hist, hist_max)
    /\ main_pc' = "done"
    /\ outcome' = "returned"
    /\ UNCHANGED << dispersion, inputs, shared, next_fi, unit, messages, list_out, hist_opts,
                    hist_max, hist, warnings, history >>

Next ==
    \/ \E t \in Threads : Unit(t)
    \/ LoopEnd
    \/ WriteList
    \/ HistBounds
    \/ HistFill
    \/ WriteHist

Spec == Init /\ [][Next]_vars

\* ================================================ run_dispersion (375-430)

\* In a run of `analyze dispersion`, run_edpl is not entered.
EdplNotRun ==
    /\ files = << >>
    /\ no_list_file = FALSE
    /\ openmp = FALSE
    /\ tree = EmptyTree
    /\ node_distances = EmptyMatrix
    /\ file_count = 0
    /\ max_edpl = NegInf
    /\ edpl_values = << >>
    /\ lock = 0
    /\ next_fi = 1
    /\ unit = [ t \in Threads |-> IdleUnit ]
    /\ main_pc = "not_run"
    /\ outcome = "not_run"
    /\ messages = << >>
    /\ list_out = << >>
    /\ hist_opts = [bins |-> 0, max |-> 0]
    /\ hist_max = 0
    /\ hist = << >>
    /\ hist_out = << >>
    /\ files_open = { }
    /\ warnings = { }
    /\ history = [ tree_writes |-> 0, dist_writes |-> 0, initialisers |-> { },
                   first_entered |-> 0, out_of_order |-> FALSE, checked |-> { },
                   mismatch |-> { }, stores |-> { }, edpl_calls |-> { } ]

edpl_state ==
    << files, no_list_file, openmp, tree, node_distances, file_count, max_edpl,
       edpl_values, lock, next_fi, unit, main_pc, outcome, messages, list_out,
       hist_opts, hist_max, hist, hist_out, files_open, warnings, history >>

InitDispersion ==
    /\ EdplNotRun
    /\ disp_opts \in [edge_values : EdgeValuesChoices, method : MethodChoices]
    /\ variants = << >>
    /\ profile = NoProfile
    /\ disp_pc = "get_variants"
    /\ frame = NoFrame
    /\ trees_out = << >>
    /\ disp_outcome = "running"

\* Lines 390-400: the variants, and the check that no output file exists yet.
GetVariants ==
    /\ disp_pc = "get_variants"
    /\ variants' = get_variants(disp_opts)
    /\ disp_pc' = "read_profile"
    /\ UNCHANGED << edpl_state, disp_opts, profile, frame, trees_out, disp_outcome >>

\* A check of the row count that lets a single sample pass.
NoSampleAtAll(p) == p.edge_masses.rows < 1

\* Line 410: profile.edge_masses.rows() <= 1
TooFewSamples(p) == p.edge_masses.rows <= 1

\* Lines 406-415: read the samples; a single sample is a fatal error.
ReadProfile ==
    /\ disp_pc = "read_profile"
    /\ \E p \in Profiles :
         /\ profile' = p
         /\ IF TooFewSamples(p)
            THEN /\ disp_outcome' = "error_single_sample"
                 /\ disp_pc' = "unwound"
            ELSE /\ disp_pc' = "masses"
                 /\ UNCHANGED disp_outcome
    /\ UNCHANGED << edpl_state, disp_opts, variants, frame, trees_out >>

\* Lines 420-424: run_with_matrix on the masses, if selected.
CallMasses ==
    /\ disp_pc = "masses"
    /\ IF EdgeValuesIs(disp_opts, "masses")
       THEN /\ frame' = [NoFrame EXCEPT !.edge_values = "kMasses"]
            /\ disp_pc' = "shape"
       ELSE /\ disp_pc' = "imbalances"
            /\ UNCHANGED frame
    /\ UNCHANGED << edpl_state, disp_opts, variants, profile, trees_out, disp_outcome >>

\* Lines 425-430: run_with_matrix on the imbalances, if selected; else return.
CallImbalances ==
    /\ disp_pc = "imbalances"
    /\ IF EdgeValuesIs(disp_opts, "imbalances")
       THEN /\ frame' = [NoFrame EXCEPT !.edge_values = "kImbalances"]
            /\ disp_pc' = "shape"
            /\ UNCHANGED disp_outcome
       ELSE /\ disp_pc' = "done"
            /\ disp_outcome' = "returned"
            /\ UNCHANGED frame
    /\ UNCHANGED << edpl_state, disp_opts, variants, profile, trees_out >>

\* ------------------------------------------------ run_with_matrix (287-369)

\* The matrix given to the run_with_matrix call in progress.
Values ==
    IF frame.edge_values = "kMasses" THEN profile.edge_masses
    ELSE profile.edge_imbalances

\* A shape check that accepts every matrix.
ShapeAlwaysFits(values, tr) == FALSE

\* Line 296: values.cols() != tree.edge_count()
ShapeMismatch(values, tr) == values.cols # tr.edge_count

\* Lines 296-298: the matrix has to have one column per edge.
ShapeCheck ==
    /\ disp_pc = "shape"
    /\ IF ShapeMismatch(Values, profile.tree)
       THEN /\ disp_outcome' = "error_edge_values_length"
            /\ disp_pc' = "unwound"
       ELSE /\ disp_pc' = "reduce"
            /\ UNCHANGED disp_outcome
    /\ UNCHANGED << edpl_state, disp_opts, variants, profile, frame, trees_out >>

\* Line 301: the result of matrix_col_mean_stddev, one pair {0, 0} per column.
ZeroPairs(data) == [ c \in 1..data.cols |-> [mean |-> Zero, stddev |-> Zero] ]

\* Lines 300-306: matrix_col_mean_stddev is entered; a matrix without rows
\* is answered at once with the pairs {0, 0}.
MeanStddevEnter ==
    /\ disp_pc = "reduce"
    /\ frame' = [ frame EXCEPT
          !.mean_stddev = ZeroPairs(Values),
          !.cols_done = IF Values.rows = 0 THEN 1..Values.cols ELSE { } ]
    /\ disp_pc' = "columns"
    /\ UNCHANGED << edpl_state, disp_opts, variants, profile, trees_out, disp_outcome >>

\* Lines 309-312: one iteration of the parallel loop over the columns; the
\* iterations run in any order, each writing the pair of its own column.
MeanStddevColumn(c) ==
    /\ disp_pc = "columns"
    /\ c \in 1..Values.cols
    /\ c \notin frame.cols_done
    /\ frame' = [ frame EXCEPT
          !.mean_stddev[c] = mean_stddev(Col(Values, c)),
          !.cols_done = @ \cup { c } ]
    /\ UNCHANGED << edpl_state, disp_opts, variants, profile, disp_pc, trees_out,
                    disp_outcome >>

\* Line 327: stddev * stddev
Variance(pair) == MulReal(pair.stddev, pair.stddev)

\* A quotient that is 0.0 where the mean is zero.
GuardedCoefficient(pair) ==
    IF pair.mean = Zero THEN Zero ELSE DivReal(pair.stddev, pair.mean)

\* Line 328: stddev / mean
CoefficientOfVariation(pair) == DivReal(pair.stddev, pair.mean)

\* Line 329: stddev * stddev / mean
IndexOfDispersion(pair) == DivReal(MulReal(pair.stddev, pair.stddev), pair.mean)

\* Lines 320-330: the four vectors, computed whatever the variants are.
Reduce ==
    /\ disp_pc = "columns"
    /\ frame.cols_done = 1..Values.cols
    /\ LET ms == frame.mean_stddev
       IN  frame' = [ frame EXCEPT
             !.sd_vec  = [ i \in 1..Len(ms) |-> ms[i].stddev ],
             !.var_vec = [ i \in 1..Len(ms) |-> Variance(ms[i]) ],
             !.cv_vec  = [ i \in 1..Len(ms) |-> CoefficientOfVariation(ms[i]) ],
             !.vmr_vec = [ i \in 1..Len(ms) |-> IndexOfDispersion(ms[i]) ],
             !.vi = 1 ]
    /\ disp_pc' = "variants"
    /\ UNCHANGED << edpl_state, disp_opts, variants, profile, trees_out, disp_outcome >>

\* The standard deviations, whatever the method.
VectorAlwaysSd(fr, method) == fr.sd_vec

\* Lines 342-363: the vector of the method of a variant.
VectorOf(fr, method) ==
    CASE method = "kStandardDeviation"     -> fr.sd_vec
      [] method = "kVariance"              -> fr.var_vec
      [] method = "kCoeffcientOfVariation" -> fr.cv_vec
      [] method = "kIndexOfDispersion"     -> fr.vmr_vec

\* Lines 333-368: one iteration of the loop over the variants: a variant of
\* the other kind is skipped, a variant of this kind goes to
\* make_dispersion_color_tree (lines 232-278) and on to write_tree_to_files.
NextVariant ==
    /\ disp_pc = "variants"
    /\ frame.vi <= Len(variants)
    /\ LET variant == variants[frame.vi]
           vec     == VectorOf(frame, variant.dispersion_method)
       IN  IF variant.edge_values # frame.edge_values
           THEN /\ frame' = [frame EXCEPT !.vi = @ + 1]
                /\ UNCHANGED << trees_out, disp_pc, disp_outcome >>
           ELSE IF ValuesMisfit(vec, profile.tree)
           THEN /\ disp_outcome' = "error_trees_and_matrices"
                /\ disp_pc' = "unwound"
                /\ UNCHANGED << trees_out, frame >>
           ELSE /\ trees_out' = Append(trees_out,
                                       ColorTree(vec, variant.log_scaling, variant.name))
                /\ frame' = [frame EXCEPT !.vi = @ + 1]
                /\ UNCHANGED << disp_pc, disp_outcome >>
    /\ UNCHANGED << edpl_state, disp_opts, variants, profile >>

\* Line 369: the loop is over; back in run_dispersion.
ReturnFromMatrix ==
    /\ disp_pc = "variants"
    /\ frame.vi > Len(variants)
    /\ IF frame.edge_values = "kMasses"
       THEN /\ disp_pc' = "imbalances"
            /\ UNCHANGED disp_outcome
       ELSE /\ disp_pc' = "done"
            /\ disp_outcome' = "returned"
    /\ UNCHANGED << edpl_state, disp_opts, variants, profile, frame, trees_out >>

NextDispersion ==
    \/ GetVariants
    \/ ReadProfile
    \/ CallMasses
    \/ CallImbalances
    \/ ShapeCheck
    \/ MeanStddevEnter
    \/ \E c \in 1..MaxCols : MeanStddevColumn(c)
    \/ Reduce
    \/ NextVariant
    \/ ReturnFromMatrix

SpecDispersion == InitDispersion /\ [][NextDispersion]_vars

\* ============================================================ properties

\* The names of the pqueries of a sample, in discovery order.
RECURSIVE NamesInOrder(_)
NamesInOrder(pqueries) ==
    IF pqueries = << >> THEN << >>
    ELSE [ k \in 1..Len(pqueries[1].names) |-> pqueries[1].names[k].name ]
         \o NamesInOrder(Tail(pqueries))

RowsOfFile(f) == LET OfFile(r) == r.file = f IN SelectSeq(list_out, OfFile)

ListWritten == "edpl_list" \in files_open

\* C1: whatever the interleaving and completion order of the units, the list
\* output holds the rows grouped by input file in ascending file index and,
\* inside a file, in pquery discovery order: no row of a later file precedes
\* a row of an earlier file, the rows of file fi are the contents of
\* edpl_values[fi], and they are the records of the pqueries of file fi.
C1_ListInFileOrder ==
    ListWritten =>
        /\ \A i, j \in 1..Len(list_out) : i < j => list_out[i].file <= list_out[j].file
        /\ \A f \in 1..NumFiles :
             /\ Len(RowsOfFile(f)) = Len(edpl_values[f])
             /\ \A k \in 1..Len(edpl_values[f]) :
                  /\ RowsOfFile(f)[k].name = edpl_values[f][k].name
                  /\ RowsOfFile(f)[k].mult = edpl_values[f][k].mult
                  /\ RowsOfFile(f)[k].edpl = edpl_values[f][k].edpl
             /\ [ k \in 1..Len(RowsOfFile(f)) |-> RowsOfFile(f)[k].name ]
                  = NamesInOrder(files[f].pqueries)

\* The list is written although a later file was completed before an earlier one.
C1_Witness ==
    /\ ListWritten
    /\ history.out_of_order
    /\ \E f, g \in 1..NumFiles : f # g /\ edpl_values[f] # << >> /\ edpl_values[g] # << >>

\* A unit past the critical section.
PastCritical(t) == unit[t].pc \in { "safety", "pq_edpl", "pq_max", "store" }

\* C2: the shared tree and the distance matrix are each assigned exactly once,
\* by the first unit that enters the critical section, and never again; no two
\* units take the initialising branch.
C2_InitialisedOnce ==
    /\ history.tree_writes <= 1
    /\ history.dist_writes <= 1
    /\ Cardinality(history.initialisers) <= 1
    /\ history.initialisers \subseteq { history.first_entered }
    /\ ((\E t \in Threads : PastCritical(t)) \/ history.stores # { } \/ main_pc # "loop")
         => /\ history.tree_writes = 1
            /\ history.dist_writes = 1
            /\ tree = files[history.first_entered].tree
            /\ node_distances.rows = tree.nodes
            /\ node_distances.scale = tree.bl

\* The run has returned, and units other than the initialising one went
\* through the critical section.
C2_Witness ==
    /\ outcome = "returned"
    /\ history.tree_writes = 1
    /\ Cardinality(history.checked) >= 1
    /\ history.first_entered # 1

\* A unit in the middle of the write of the tree and the matrix.
Writing(t) == unit[t].pc \in { "crit_init", "crit_dist" }

\* A unit at a read of the tree or the matrix: the compatibility check, the
\* dimension check, an edpl() call.
Reading(t) == unit[t].pc \in { "crit_compat", "safety", "pq_edpl" }

\* C3: the write of the shared tree and matrix excludes every read of them,
\* and no unit reads them before they have been written.
C3_WriteExcludesReads ==
    \A t \in Threads :
        Reading(t) =>
            /\ \A u \in Threads \ { t } : ~ Writing(u)
            /\ history.tree_writes >= 1 /\ ~ TreeEmpty(tree)
            /\ history.dist_writes >= 1 /\ node_distances # EmptyMatrix

\* A unit is writing while another waits to enter the critical section.
C3_Witness ==
    \E t, u \in Threads :
        /\ t # u
        /\ unit[t].pc = "crit_dist"
        /\ unit[u].pc = "crit_enter"

\* The files for which records exist or edpl() has been called.
Reduced == { f \in 1..NumFiles : edpl_values[f] # << >> }
              \cup { c[1] : c \in history.edpl_calls }
              \cup { unit[t].fi : t \in { u \in Threads : unit[u].temp # << >> } }

\* C4: every sample other than the initialising one is checked against the
\* reference tree before any of its pqueries is reduced; a failed check raises
\* the fatal error and leaves no record for that file.
C4_CheckedBeforeReduced ==
    /\ \A f \in Reduced \ history.initialisers :
         /\ f \in history.checked
         /\ files[f].tree.topo = tree.topo
    /\ \A t \in Threads :
         (PastCritical(t) /\ unit[t].fi \notin history.initialisers)
            => (unit[t].fi \in history.checked /\ Sample(t).tree.topo = tree.topo)
    /\ \A f \in history.mismatch :
         /\ f \notin Reduced
         /\ edpl_values[f] = << >>
         /\ files[f].tree.topo # tree.topo
         /\ outcome \in { "exception", "terminated" }

\* The check of a sample other than the initialising one has failed, after
\* the initialising sample was reduced; the failing file has no record.
C4_Witness ==
    /\ \E f \in history.mismatch : f \notin history.initialisers /\ edpl_values[f] = << >>
    /\ \E f \in history.initialisers : edpl_values[f] # << >>
    /\ outcome \in { "exception", "terminated" }

\* The EDPL values of all pqueries of all files, in the established matrix.
PqueryValues ==
    UNION { { edpl(files[f].pqueries[p], node_distances) : p \in 1..Len(files[f].pqueries) } :
            f \in 1..NumFiles }

MaximumOf(S) == IF S = { } THEN NegInf ELSE CHOOSE m \in S : \A x \in S : x <= m

\* C5: when the parallel loop has finished, max_edpl is the maximum of the
\* EDPL values of all pqueries of all files (minus infinity if there are
\* none): no update is lost to a concurrent update.
C5_MaxIsMaximum ==
    main_pc = "write_list" => max_edpl = MaximumOf(PqueryValues)

\* C6: a topology mismatch detected in a unit is surfaced to the caller of
\* run_edpl as an exception, after the units in flight have completed: it
\* does not kill them, and nothing is written afterwards.
C6_MismatchSurfaces ==
    history.mismatch # { } =>
        /\ outcome \in { "running", "exception" }
        /\ \A t \in Threads : unit[t].pc # "killed"
        /\ outcome = "exception" => \A t \in Threads : unit[t].pc \in { "idle", "threw" }
        /\ files_open = { }

\* Two input files whose reference trees are incompatible.
IncompatibleInput ==
    \E f, g \in 1..NumFiles : files[f].tree.topo # files[g].tree.topo

\* C7: if the input holds a file whose reference tree is incompatible with the
\* established one, then in every interleaving neither the list output nor the
\* histogram output is opened or written.
C7_AllOrNothing ==
    IncompatibleInput =>
        /\ files_open = { }
        /\ list_out = << >>
        /\ hist_out = << >>
        /\ main_pc = "loop"
        /\ outcome # "returned"

\* The run was ended by a mismatch after another file was fully reduced.
C7_Witness ==
    /\ IncompatibleInput
    /\ outcome \in { "exception", "terminated" }
    /\ \E f \in 1..NumFiles : edpl_values[f] # << >>
    /\ files_open = { }

RECURSIVE RecordsOfSample(_, _, _)
RecordsOfSample(pqueries, nd, no_list) ==
    IF pqueries = << >> THEN << >>
    ELSE RecordsOf(pqueries[1], edpl(pqueries[1], nd), no_list)
         \o RecordsOfSample(Tail(pqueries), nd, no_list)

\* The run in which the units are executed one after the other in file order:
\* the first file supplies the tree, and no update of max_edpl is lost.
InOrderDistances == node_branch_length_distance_matrix(files[1].tree)

InOrderValues ==
    [ f \in 1..NumFiles |-> RecordsOfSample(files[f].pqueries, InOrderDistances, no_list_file) ]

InOrderMax ==
    LET found == MaximumOf(UNION { { edpl(files[f].pqueries[p], InOrderDistances) :
                                       p \in 1..Len(files[f].pqueries) } : f \in 1..NumFiles })
    IN  IF Degenerate(found) THEN 1 ELSE found

InOrderHistMax == IF hist_opts.max < 0 THEN InOrderMax ELSE hist_opts.max

InOrderList == IF no_list_file THEN << >> ELSE ListRows(InOrderValues, 1, NumFiles)

InOrderHist ==
    HistRows(AccumulateAll([ i \in 1..hist_opts.bins |-> 0 ],
                           ListRows(InOrderValues, 1, NumFiles), InOrderHistMax),
             InOrderHistMax)

\* C8: a run on mutually compatible input files produces the same list and
\* histogram contents whatever the scheduling of the units: every run that
\* returns has the output of the run that takes the files in order.
C8_OrderDeterministic ==
    outcome = "returned" =>
        /\ list_out = InOrderList
        /\ hist_out = InOrderHist

RECURSIVE CountPqueries(_)
CountPqueries(fs) == IF fs = << >> THEN 0 ELSE Len(fs[1].pqueries) + CountPqueries(Tail(fs))

RECURSIVE CountNamesOf(_)
CountNamesOf(pqueries) ==
    IF pqueries = << >> THEN 0 ELSE Len(pqueries[1].names) + CountNamesOf(Tail(pqueries))

RECURSIVE CountNames(_)
CountNames(fs) == IF fs = << >> THEN 0 ELSE CountNamesOf(fs[1].pqueries) + CountNames(Tail(fs))

RECURSIVE CountRecords(_, _)
CountRecords(values, n) == IF n = 0 THEN 0 ELSE Len(values[n]) + CountRecords(values, n - 1)

\* C9: after a successful reduction the number of records over all slots is
\* the number of pqueries of all files when names are not tracked, and the sum
\* over all pqueries of their numbers of names when they are.
C9_RecordCount ==
    main_pc # "loop" =>
        CountRecords(edpl_values, NumFiles)
            = IF no_list_file THEN CountPqueries(files) ELSE CountNames(files)

\* The reduction succeeded, with names tracked, on files that hold a pquery
\* without a name and a pquery with two names.
C9_Witness ==
    /\ main_pc = "write_list"
    /\ ~ no_list_file
    /\ \E f, g \in 1..NumFiles : files[f] = SampleA /\ files[g] = SampleB

\* The index in a slot of the first record of pquery p, names tracked.
RECURSIVE FirstRecord(_, _)
FirstRecord(pqueries, p) ==
    IF p = 1 THEN 1 ELSE Len(pqueries[p - 1].names) + FirstRecord(pqueries, p - 1)

RECURSIVE MultiplicitySum(_, _)
MultiplicitySum(names, n) ==
    IF n = 0 THEN 0 ELSE names[n].multiplicity + MultiplicitySum(names, n - 1)

\* C10: for each pquery the EDPL value is computed once, and every record of
\* the pquery carries it; with names tracked each record carries its own name
\* and the multiplicity of that name, without them the one record carries the
\* empty name and the total multiplicity of the pquery.
C10_RecordsOfPquery ==
    \A w \in history.stores :
        LET f  == w[1]
            pq == files[f].pqueries
            rs == edpl_values[f]
        IN  \A p \in 1..Len(pq) :
              LET v == pq[p].spread * node_distances.scale
              IN  /\ Cardinality({ c \in history.edpl_calls : c[1] = f /\ c[2] = p }) = 1
                  /\ IF no_list_file
                     THEN /\ Len(rs) = Len(pq)
                          /\ rs[p].name = ""
                          /\ rs[p].mult = MultiplicitySum(pq[p].names, Len(pq[p].names))
                          /\ rs[p].edpl = v
                     ELSE \A k \in 1..Len(pq[p].names) :
                            LET i == FirstRecord(pq, p) + k - 1
                            IN  /\ i <= Len(rs)
                                /\ rs[i].name = pq[p].names[k].name
                                /\ rs[i].mult = pq[p].names[k].multiplicity
                                /\ rs[i].edpl = v

\* A slot holds the two records of a pquery with two names.
C10_Witness ==
    \E w \in history.stores :
        /\ files[w[1]] = SampleA
        /\ ~ no_list_file
        /\ Len(edpl_values[w[1]]) = 3
        /\ edpl_values[w[1]][2].edpl = edpl_values[w[1]][3].edpl
        /\ edpl_values[w[1]][2].name # edpl_values[w[1]][3].name

\* ------------------------------------------------------------------ C14

RECURSIVE TotalWeight(_)
\* The sum of the multiplicities of the given records.
TotalWeight(rows) ==
    IF rows = << >> THEN 0 ELSE rows[1].mult + TotalWeight(Tail(rows))

\* The histogram has been filled from all records.
Accumulated == main_pc \in { "hist_write", "done" }

\* C14: once all records are accumulated, the histogram bins sum to the total
\* weight of the records, whether their values lie below, at or above the
\* upper bound; in the histogram file the accumulated value of the last bin
\* is that total, and the accumulated column never decreases.
C14_HistogramSum ==
    Accumulated =>
        LET total == TotalWeight(ListRows(edpl_values, 1, NumFiles))
        IN  /\ Len(hist) = hist_opts.bins
            /\ SumTo(hist, Len(hist)) = total
            /\ main_pc = "done" =>
                 /\ Len(hist_out) = hist_opts.bins
                 /\ hist_out[Len(hist_out)].acc = total
                 /\ \A i \in 1..(Len(hist_out) - 1) :
                        hist_out[i].acc <= hist_out[i + 1].acc

\* A written histogram of two bins with a record below and a record above
\* the upper bound.
C14_Witness ==
    /\ main_pc = "done"
    /\ hist_opts.bins = 2
    /\ LET rows == ListRows(edpl_values, 1, NumFiles)
       IN  /\ \E k \in 1..Len(rows) : rows[k].edpl > hist_max
           /\ \E k \in 1..Len(rows) : 2 * rows[k].edpl < hist_max
    /\ hist_out[1].acc > 0
    /\ hist_out[2].acc > hist_out[1].acc

\* ------------------------------------------------------------------ C15

\* Every pquery of every input file has an EDPL of exactly zero, so that the
\* observed maximum is not above zero.
AllZeroValues ==
    \A f \in 1..NumFiles : \A p \in 1..Len(files[f].pqueries) :
        files[f].pqueries[p].spread = 0

\* Lines 667-691 have run.
BoundsChosen == main_pc \in { "hist_fill", "hist_write", "done", "unwound" }

\* C15: with a degenerate observed maximum (here: all values zero) the run
\* does not fail: the warning is emitted, 1.0 takes the place of the maximum,
\* and the histogram holds the whole weight in bin 0 and nothing elsewhere.
C15_DegenerateMaximum ==
    (BoundsChosen /\ AllZeroValues) =>
        /\ "degenerate_max" \in warnings
        /\ max_edpl = 1
        /\ outcome # "exception"
        /\ Accumulated =>
             /\ hist[1] = TotalWeight(ListRows(edpl_values, 1, NumFiles))
             /\ \A i \in 2..Len(hist) : hist[i] = 0

\* ------------------------------------------------------------------ C16

\* The histogram is being, or has been, constructed with hist_max.
HistogramConstructed == main_pc \in { "hist_fill", "hist_write", "done" }

\* C16: whatever the value of --histogram-max (negative, zero, positive) and
\* whatever the observed maximum, the upper bound hist_max of the histogram
\* is finite and above zero; a negative option value selects the observed
\* maximum (after the substitution of 1.0).
C16_UpperBoundPositive ==
    HistogramConstructed =>
        /\ IsFinite(hist_max)
        /\ hist_max > 0
        /\ hist_opts.max < 0 => hist_max = max_edpl

\* ------------------------------------------------------------------ C11

\* get_variants has returned.
VariantsReturned == disp_pc \notin { "not_run", "get_variants" }

\* C11: for every edge-values selector and every method selector, no variant
\* that get_variants emits has the kind imbalances together with the
\* coefficient of variation or the index of dispersion, linear or log scaled.
C11_NoCvVmrForImbalances ==
    \A k \in 1..Len(variants) :
        variants[k].edge_values = "kImbalances" =>
            variants[k].dispersion_method \in { "kStandardDeviation", "kVariance" }

\* The list of both kinds and all methods: it has imbalances variants, and
\* the masses come with the coefficient of variation.
C11_Witness ==
    /\ VariantsReturned
    /\ disp_opts = [edge_values |-> "both", method |-> "all"]
    /\ \E k \in 1..Len(variants) : variants[k].edge_values = "kImbalances"
    /\ \E k \in 1..Len(variants) :
         /\ variants[k].edge_values = "kMasses"
         /\ variants[k].dispersion_method = "kCoeffcientOfVariation"

\* ------------------------------------------------------------------ C12

\* Kind, statistic and log scaling of the variants, in list order.
FieldsOf(vs) ==
    [ k \in 1..Len(vs) |->
        << vs[k].edge_values, vs[k].dispersion_method, vs[k].log_scaling >> ]

\* C12: with edge-values both and method all, get_variants returns exactly
\* twelve variants: the eight masses variants sd, var, cv, vmr, sd-log,
\* var-log, cv-log, vmr-log and then the four imbalances variants sd, var,
\* sd-log, var-log, none of them twice.
C12_BothAllIsTwelve ==
    (VariantsReturned /\ disp_opts = [edge_values |-> "both", method |-> "all"]) =>
        /\ Len(variants) = 12
        /\ FieldsOf(variants) =
             << << "kMasses", "kStandardDeviation", FALSE >>,
                << "kMasses", "kVariance", FALSE >>,
                << "kMasses", "kCoeffcientOfVariation", FALSE >>,
                << "kMasses", "kIndexOfDispersion", FALSE >>,
                << "kMasses", "kStandardDeviation", TRUE >>,
                << "kMasses", "kVariance", TRUE >>,
                << "kMasses", "kCoeffcientOfVariation", TRUE >>,
                << "kMasses", "kIndexOfDispersion", TRUE >>,
                << "kImbalances", "kStandardDeviation", FALSE >>,
                << "kImbalances", "kVariance", FALSE >>,
                << "kImbalances", "kStandardDeviation", TRUE >>,
                << "kImbalances", "kVariance", TRUE >> >>
        /\ \A i, j \in 1..Len(variants) :
               i # j => /\ variants[i] # variants[j]
                        /\ variants[i].name # variants[j].name

\* get_variants has just returned the list of both kinds and all methods.
C12_Witness ==
    /\ disp_pc = "read_profile"
    /\ disp_opts = [edge_values |-> "both", method |-> "all"]
    /\ Len(variants) > 0

\* ------------------------------------------------------------------ C13

\* C13: when the options give an empty variant list, get_variants returns it
\* without an error, and run_dispersion notices the empty list and reports
\* it: it does not return normally without having produced any output.
C13_EmptyListReported ==
    (VariantsReturned /\ variants = << >>) => disp_outcome # "returned"

\* ------------------------------------------------------------------ C17

\* C17: make_dispersion_color_tree never asks for log scaling with a floor
\* of zero or below: whenever log_scaling is set, the minimum it sets on the
\* logarithmic normalization is strictly greater than 0, also for a vector
\* whose maximum is 0.
C17_LogFloorPositive ==
    \A k \in 1..Len(trees_out) :
        trees_out[k].logarithmic =>
            /\ trees_out[k].min_set
            /\ LessReal(Zero, trees_out[k].min_value)

\* ------------------------------------------------------------------ C18

\* C18: for a log-scaled variant the floor is max/10000 when the autoscaled
\* maximum is at most 1.0 and exactly 1.0 when it is above 1.0, and clipping
\* below the floor is enabled; for a linear variant the floor is not set and
\* clipping is not enabled.
C18_LogFloorValue ==
    \A k \in 1..Len(trees_out) :
        LET t == trees_out[k]
        IN  IF t.logarithmic
            THEN /\ t.min_set
                 /\ t.clip_under
                 /\ t.min_value = IF LessReal(One, t.max_value) THEN One
                                  ELSE DivReal(t.max_value, Real(10000, 1))
            ELSE /\ ~ t.min_set
                 /\ ~ t.clip_under

\* ------------------------------------------------------------------ C19

\* placement_profile() has returned and the row count has been looked at.
ProfileRead == disp_pc \notin { "not_run", "get_variants", "read_profile" }

\* C19: with fewer than two samples (a matrix of 0 rows or of 1 row)
\* run_dispersion ends with the fatal error before run_with_matrix is
\* entered: nothing is reduced and no variant reaches the output adapter.
C19_TooFewSamplesFatal ==
    (ProfileRead /\ profile.edge_masses.rows < 2) =>
        /\ disp_outcome = "error_single_sample"
        /\ disp_pc = "unwound"
        /\ frame = NoFrame
        /\ trees_out = << >>

\* A run on a single sample, with variants to compute, has failed.
C19_Witness ==
    /\ ProfileRead
    /\ profile.edge_masses.rows = 1
    /\ variants # << >>
    /\ disp_outcome = "error_single_sample"

\* ------------------------------------------------------------------ C20

\* run_with_matrix has been entered and is past its shape check.
PastShapeCheck == frame.edge_values # "none" /\ disp_pc # "shape"

\* The variants that the call in progress is responsible for.
NamesOfThisKind ==
    { variants[j].name : j \in { i \in 1..Len(variants) :
                                   variants[i].edge_values = frame.edge_values } }

\* C20: run_with_matrix fails with the data-shape error whenever the column
\* count of the matrix differs from the edge count of the tree, before any
\* statistic is computed and before any of its variants is handed to the
\* output adapter; when the counts agree it does not raise this error.
C20_ShapeError ==
    PastShapeCheck =>
        IF Values.cols # profile.tree.edge_count
        THEN /\ disp_outcome = "error_edge_values_length"
             /\ frame.mean_stddev = << >>
             /\ frame.sd_vec = << >> /\ frame.var_vec = << >>
             /\ frame.cv_vec = << >> /\ frame.vmr_vec = << >>
             /\ \A k \in 1..Len(trees_out) : trees_out[k].infix \notin NamesOfThisKind
        ELSE disp_outcome # "error_edge_values_length"

\* A call with a matrix of one column for a tree of two edges has failed,
\* with variants of its kind waiting.
C20_Witness ==
    /\ PastShapeCheck
    /\ Values.cols # profile.tree.edge_count
    /\ NamesOfThisKind # { }
    /\ disp_outcome = "error_edge_values_length"

\* ------------------------------------------------------------------ C27

\* C27: the result container has one slot per input file; the unit of file fi
\* writes edpl_values[fi] and no other slot, writes it once, while it is
\* still empty, and a written slot is not modified again.
C27_SlotOwnership ==
    /\ main_pc # "not_run" => Len(edpl_values) = NumFiles
    /\ \A w \in history.stores : w[2] = w[1] /\ w[3] = 1
    /\ \A w, x \in history.stores : w[1] = x[1] => w = x
    /\ \A f \in 1..NumFiles :
         IF \E w \in history.stores : w[1] = f
         THEN edpl_values[f] =
                  RecordsOfSample(files[f].pqueries, node_distances, no_list_file)
         ELSE edpl_values[f] = << >>

\* Two units have written their slots, the later file first.
C27_Witness ==
    /\ Cardinality(history.stores) = 2
    /\ history.out_of_order
    /\ \A f \in 1..NumFiles : edpl_values[f] # << >>

\* ------------------------------------------------------------------ C30

\* C30: the progress counter counts the units under every interleaving: the
\* messages "Processing file k of N" carry each k of 1..N exactly once, and
\* the counter is N when the parallel loop has finished.
C30_ProgressCounter ==
    main_pc = "write_list" =>
        /\ file_count = NumFiles
        /\ \A k \in 1..NumFiles : messages[k] = 1

\* ------------------------------------------------------------------ C23

\* The true observed maximum: the largest EDPL value of all pqueries.
TrueMaximum == MaximumOf(PqueryValues)

\* C23: the diagnostics on the histogram bound are advisory.  The warning of
\* an over-accumulating top bin is emitted exactly when a positive
\* --histogram-max is below 75% of the true observed maximum, the warning of
\* empty trailing bins exactly when it is above 125% of it; either way the
\* run goes on and the histogram is made with the bound of the user.
C23_BoundWarnings ==
    BoundsChosen =>
        /\ "below_75" \in warnings <=>
             (hist_opts.max > 0 /\ BelowThreeQuarters(hist_opts.max, TrueMaximum))
        /\ "above_125" \in warnings <=>
             (hist_opts.max > 0 /\ AboveFiveQuarters(hist_opts.max, TrueMaximum))
        /\ hist_opts.max > 0 =>
             /\ hist_max = hist_opts.max
             /\ outcome # "exception"
             /\ main_pc = "done" => Len(hist_out) = hist_opts.bins

\* ------------------------------------------------------------------ C29

\* The records of all files as the run with the other value of
\* --no-list-file collects them, from the same tree and distance matrix.
RecordsWithOtherFlag ==
    ListRows([ f \in 1..NumFiles |->
                 RecordsOfSample(files[f].pqueries, node_distances, ~ no_list_file) ],
             1, NumFiles)

\* C29: the histogram does not depend on the name tracking: for the same
\* files, bin count and bound, every bin holds the same weight with one
\* record per name (weight: the multiplicity of the name) as with one record
\* per pquery (weight: its total multiplicity), pqueries without a name
\* included.
C29_HistogramIgnoresNames ==
    Accumulated =>
        hist = AccumulateAll([ i \in 1..hist_opts.bins |-> 0 ],
                             RecordsWithOtherFlag, hist_max)

\* A histogram of two bins is written for a file whose pquery has two names
\* and a file whose pquery has none.
C29_Witness ==
    /\ main_pc = "done"
    /\ hist_opts.bins = 2
    /\ \E f, g \in 1..NumFiles : files[f] = SampleA /\ files[g] = SampleB
    /\ SumTo(hist, Len(hist)) > 0

\* ============================== the histogram of run_edpl on its own (693-715)

\* A pquery with one name of weight w whose EDPL is v in a matrix of scale 1.
Observation(v, w) == Pquery(<< PqueryName("o", w) >>, v)

\* Unit-weight observations at 1, 3, 6 and 9.
ExampleObservations ==
    << Observation(1, 1), Observation(3, 1), Observation(6, 1), Observation(9, 1) >>

\* The inputs of the histogram runs: the example, and every single
\* observation of a value from 0 to 12 with weight 1 or 2.
ObservationLists ==
    { ExampleObservations } \cup { << Observation(v, w) >> : v \in 0..12, w \in 1..2 }

\* The state of run_edpl at line 693 for one input file with the given
\* pqueries, names tracked, and positive values of --histogram-bins and
\* --histogram-max: the loop and the list file are done, the bound is chosen.
InitHistogram ==
    /\ DispersionNotRun
    /\ \E obs \in ObservationLists :
         files = << [tree |-> Tree(1, 1), pqueries |-> obs] >>
    /\ no_list_file = FALSE
    /\ openmp = FALSE
    /\ tree = files[1].tree
    /\ node_distances = node_branch_length_distance_matrix(tree)
    /\ file_count = 1
    /\ edpl_values = << RecordsOfSample(files[1].pqueries, node_distances, no_list_file) >>
    /\ max_edpl = IF Degenerate(TrueMaximum) THEN 1 ELSE TrueMaximum
    /\ lock = 0
    /\ next_fi = 2
    /\ unit = [ t \in Threads |-> IdleUnit ]
    /\ main_pc = "hist_fill"
    /\ outcome = "running"
    /\ messages = << 1 >>
    /\ list_out = ListRows(edpl_values, 1, 1)
    /\ files_open = { "edpl_list" }
    /\ hist_opts \in [bins : 1..4, max : 1..10]
    /\ hist_max = hist_opts.max
    /\ hist = << >>
    /\ hist_out = << >>
    /\ warnings =
         (IF BelowThreeQuarters(hist_opts.max, TrueMaximum) THEN { "below_75" } ELSE { })
         \cup (IF AboveFiveQuarters(hist_opts.max, TrueMaximum) THEN { "above_125" } ELSE { })
         \cup (IF Degenerate(TrueMaximum) THEN { "degenerate_max" } ELSE { })
    /\ history = [ tree_writes |-> 1, dist_writes |-> 1, initialisers |-> { 1 },
                   first_entered |-> 1, out_of_order |-> FALSE, checked |-> { },
                   mismatch |-> { }, stores |-> { << 1, 1, 1 >> },
                   edpl_calls |-> { << 1, p, 1 >> : p \in 1..Len(files[1].pqueries) } ]

NextHistogram ==
    \/ HistFill
    \/ WriteHist

SpecHistogram == InitHistogram /\ [][NextHistogram]_vars

\* ------------------------------------------------------------------ C28

\* The bin that covers the value v among B bins over [0, mx]: the bin i with
\* i*mx/B <= v < (i+1)*mx/B, and the last bin for a value at (or beyond) mx.
CoveringBin(v, B, mx) ==
    IF v >= mx THEN B - 1
    ELSE CHOOSE i \in 0..(B - 1) : i * mx <= v * B /\ v * B < (i + 1) * mx

\* The weight of the rows whose value the bin i covers.
WeightCoveredBy(rows, i, B, mx) ==
    LET Covered(r) == CoveringBin(r.edpl, B, mx) = i
    IN  TotalWeight(SelectSeq(rows, Covered))

\* The example: four bins up to 10, unit-weight observations 1, 3, 6 and 9.
IsExample ==
    /\ files[1].pqueries = ExampleObservations
    /\ hist_opts = [bins |-> 4, max |-> 10]

\* C28: with B bins over [0, max] every observation adds its weight to
\* exactly one bin, the one whose left-inclusive, right-exclusive range covers
\* its value, a value equal to max going to the last bin; the ranges written
\* are contiguous and ascend from 0 to max.  In the example every bin holds
\* 1 and 25%, and the accumulated percentages are 25, 50, 75 and 100.
C28_BinCoversValue ==
    Accumulated =>
        LET rows == ListRows(edpl_values, 1, NumFiles)
            B    == hist_opts.bins
        IN  /\ \A i \in 0..(B - 1) : hist[i + 1] = WeightCoveredBy(rows, i, B, hist_max)
            /\ main_pc = "done" =>
                 /\ hist_out[1].start[1] = 0
                 /\ hist_out[B].end[1] = hist_max * hist_out[B].end[2]
                 /\ \A i \in 1..B : /\ hist_out[i].bin = i - 1
                                    /\ hist_out[i].start[1] * hist_out[i].end[2]
                                         < hist_out[i].end[1] * hist_out[i].start[2]
                 /\ \A i \in 1..(B - 1) : hist_out[i].end = hist_out[i + 1].start
            /\ (main_pc = "done" /\ IsExample) =>
                 /\ hist = << 1, 1, 1, 1 >>
                 /\ \A i \in 1..4 :
                      /\ 100 * hist_out[i].percent[1] = 25 * hist_out[i].percent[2]
                      /\ 100 * hist_out[i].acc_pct[1] = 25 * i * hist_out[i].acc_pct[2]

\* The histogram file of the example is written.
C28_Witness ==
    /\ main_pc = "done"
    /\ IsExample
    /\ Len(hist_out) = 4
    /\ hist_out[4].acc = 4

\* ===================================== run_with_matrix on its own (287-369)

\* run_with_matrix called with any of the profiles' matrices, the one without
\* rows and the one of a single row included, and any variant list.
InitMatrix ==
    /\ EdplNotRun
    /\ disp_opts \in [edge_values : EdgeValuesChoices, method : MethodChoices]
    /\ variants = get_variants(disp_opts)
    /\ profile \in Profiles
    /\ disp_pc = "shape"
    /\ \E kind \in { "kMasses", "kImbalances" } :
         frame = [NoFrame EXCEPT !.edge_values = kind]
    /\ trees_out = << >>
    /\ disp_outcome = "running"

NextMatrix ==
    \/ ShapeCheck
    \/ MeanStddevEnter
    \/ \E c \in 1..MaxCols : MeanStddevColumn(c)
    \/ Reduce
    \/ NextVariant
    \/ ReturnFromMatrix

SpecMatrix == InitMatrix /\ [][NextMatrix]_vars

\* ------------------------------------------------------------------ C21

\* matrix_col_mean_stddev has been entered by the call in progress.
InColumnStep == frame.edge_values # "none" /\ frame.mean_stddev # << >>

RECURSIVE SumOver(_, _)
\* The sum of F(r) over the rows 1..n.
SumOver(F(_), n) == IF n = 0 THEN 0 ELSE F(n) + SumOver(F, n - 1)

\* The pair is the mean and the standard deviation of column c of the matrix,
\* computed from the entries of that column alone: n * mean is their sum, and
\* stddev is the non-negative root of sum (x - mean)^2 / n.
IsMeanStddevOf(pair, data, c) ==
    LET n      == data.rows
        X(r)   == data.data[r][c]
        sum    == SumOver(X, n)
        Dev(r) == (n * X(r) - sum) * (n * X(r) - sum)
    IN  /\ MulReal(pair.mean, Real(n, 1)) = Real(sum, 1)
        /\ ~ LessReal(pair.stddev, Zero)
        /\ MulReal(pair.stddev, pair.stddev) = Real(SumOver(Dev, n), n * n * n)

\* C21: the column-wise step returns one pair per column; for a matrix
\* without rows every pair is exactly {0, 0} and no error is raised; for one
\* or more rows the pair of column c is the mean and standard deviation of
\* column c, whatever the other columns hold and in whatever order the
\* parallel loop has handled the columns.
C21_ColumnMeanStddev ==
    InColumnStep =>
        /\ Len(frame.mean_stddev) = Values.cols
        /\ disp_outcome \in { "running", "returned" }
        /\ \A c \in 1..Values.cols :
             IF Values.rows = 0 \/ c \notin frame.cols_done
             THEN frame.mean_stddev[c] = [mean |-> Zero, stddev |-> Zero]
             ELSE IsMeanStddevOf(frame.mean_stddev[c], Values, c)
        /\ Values.rows = 0 => frame.cols_done = 1..Values.cols

\* The loop has handled the second column before the first, and the second
\* column's pair is not {0, 0}.
C21_Witness ==
    /\ disp_pc = "columns"
    /\ Values.rows >= 2
    /\ frame.cols_done = { 2 }
    /\ frame.mean_stddev[2] # [mean |-> Zero, stddev |-> Zero]

\* ------------------------------------------------------------------ C22

\* The four vectors of the call in progress have been derived.
VectorsDerived == frame.edge_values # "none" /\ frame.vi >= 1

PlusInfinity == Real(1, 0)

\* The trees handed out by the call in progress for the given method.
HandedOutFor(method) ==
    { k \in 1..Len(trees_out) :
        \E j \in 1..Len(variants) :
            /\ variants[j].edge_values = frame.edge_values
            /\ variants[j].dispersion_method = method
            /\ variants[j].name = trees_out[k].infix }

\* C22: for every edge i, var[i] = sd[i] * sd[i], cv[i] = sd[i] / mean[i] and
\* vmr[i] = var[i] / mean[i]; where mean[i] is zero the quotient is the
\* infinity or NaN of the platform, which is stored and reaches the consumer,
\* and no error is raised by the derivation.
C22_DerivedVectors ==
    VectorsDerived =>
        /\ \A i \in 1..Values.cols :
             LET mean == frame.mean_stddev[i].mean
                 sd   == frame.sd_vec[i]
             IN  /\ sd = frame.mean_stddev[i].stddev
                 /\ frame.var_vec[i] = MulReal(sd, sd)
                 /\ mean # Zero =>
                      /\ IsFiniteReal(frame.cv_vec[i])
                      /\ MulReal(frame.cv_vec[i], mean) = sd
                      /\ MulReal(frame.vmr_vec[i], mean) = frame.var_vec[i]
                 /\ mean = Zero =>
                      /\ frame.cv_vec[i] = IF sd = Zero THEN NaN ELSE PlusInfinity
                      /\ frame.vmr_vec[i] = IF sd = Zero THEN NaN ELSE PlusInfinity
        /\ \A k \in HandedOutFor("kCoeffcientOfVariation") :
               trees_out[k].values = frame.cv_vec
        /\ \A k \in HandedOutFor("kIndexOfDispersion") :
               trees_out[k].values = frame.vmr_vec
        /\ disp_outcome \in { "running", "returned" }

\* A coefficient of variation that is not finite, for a column of mean zero,
\* has been handed to the consumer.
C22_Witness ==
    /\ VectorsDerived
    /\ \E k \in HandedOutFor("kCoeffcientOfVariation") :
         \E i \in 1..Values.cols :
            /\ frame.mean_stddev[i].mean = Zero
            /\ ~ IsFiniteReal(trees_out[k].values[i])

\* ------------------------------------------------------------------ C24

\* The matrix of the profile for the kind of a variant.
MatrixOfKind(kind) ==
    IF kind = "kMasses" THEN profile.edge_masses ELSE profile.edge_imbalances

\* The statistic of a variant for every column of the matrix of its kind.
StatisticOf(variant) ==
    LET data == MatrixOfKind(variant.edge_values)
        Pair(c) == mean_stddev([ r \in 1..data.rows |-> data.data[r][c] ])
    IN  [ c \in 1..data.cols |->
            CASE variant.dispersion_method = "kStandardDeviation" -> Pair(c).stddev
              [] variant.dispersion_method = "kVariance" ->
                   MulReal(Pair(c).stddev, Pair(c).stddev)
              [] variant.dispersion_method = "kCoeffcientOfVariation" ->
                   DivReal(Pair(c).stddev, Pair(c).mean)
              [] variant.dispersion_method = "kIndexOfDispersion" ->
                   DivReal(MulReal(Pair(c).stddev, Pair(c).stddev), Pair(c).mean) ]

\* C24: with at least two samples every variant of the list is handed to the
\* output adapter exactly once, in list order (the masses variants before
\* the imbalances variants), with the vector of its own statistic of the
\* matrix of its own kind, its own log-scaling flag and its own name; when
\* run_dispersion returns no variant is left out.
C24_EveryVariantHandedOnce ==
    /\ Len(trees_out) <= Len(variants)
    /\ \A k \in 1..Len(trees_out) :
         /\ trees_out[k].infix = variants[k].name
         /\ trees_out[k].logarithmic = variants[k].log_scaling
         /\ trees_out[k].values = StatisticOf(variants[k])
    /\ disp_outcome = "returned" => Len(trees_out) = Len(variants)
    /\ (ProfileRead /\ profile.edge_masses.rows >= 2
          /\ profile.edge_masses.cols = profile.tree.edge_count
          /\ profile.edge_imbalances.cols = profile.tree.edge_count) =>
         disp_outcome \in { "running", "returned" }

\* All twelve variants have been handed out and the run has returned.
C24_Witness ==
    /\ disp_outcome = "returned"
    /\ profile = ProfileLarge
    /\ Len(variants) = 12
    /\ Len(trees_out) = 12
    /\ trees_out[9].values # trees_out[1].values

\* ------------------------------------------------------------------ C25

\* The statistic that a method selector other than "all" names.
StatisticNamed(m) ==
    CASE m \in { "sd", "sd-log" }   -> "kStandardDeviation"
      [] m \in { "var", "var-log" } -> "kVariance"
      [] m \in { "cv", "cv-log" }   -> "kCoeffcientOfVariation"
      [] m \in { "vmr", "vmr-log" } -> "kIndexOfDispersion"

\* Whether the method selector names a log-scaled variant.
LogNamed(m) == m \in { "sd-log", "var-log", "cv-log", "vmr-log" }

\* The kinds that the edge-values selector selects, masses first.
SelectedKinds(ev) ==
    CASE ev = "both"       -> << "kMasses", "kImbalances" >>
      [] ev = "masses"     -> << "kMasses" >>
      [] ev = "imbalances" -> << "kImbalances" >>

\* Imbalances support the standard deviation and the variance only.
Supports(kind, m) ==
    kind = "kMasses" \/ StatisticNamed(m) \in { "kStandardDeviation", "kVariance" }

\* C25: for a method selector m other than "all" the list holds, for each
\* selected kind that supports m, exactly one variant, with the statistic
\* and the log-scaling flag that m names, and nothing else: at most two
\* variants, masses before imbalances.  Under "all" the linear variants of a
\* kind precede its log-scaled variants.  Only selected kinds appear.
C25_VariantsOfMethod ==
    VariantsReturned =>
        LET m     == disp_opts.method
            kinds == SelectedKinds(disp_opts.edge_values)
        IN  /\ m # "all" =>
                 LET Supported(kind) == Supports(kind, m)
                     supported == SelectSeq(kinds, Supported)
                 IN  /\ Len(variants) <= 2
                     /\ FieldsOf(variants) =
                          [ k \in 1..Len(supported) |->
                              << supported[k], StatisticNamed(m), LogNamed(m) >> ]
            /\ m = "all" =>
                 \A i, j \in 1..Len(variants) :
                     (i < j /\ variants[i].edge_values = variants[j].edge_values
                            /\ variants[i].log_scaling) => variants[j].log_scaling
            /\ \A k \in 1..Len(variants) :
                 \E i \in 1..Len(kinds) : variants[k].edge_values = kinds[i]

\* The list of both kinds for the log-scaled variance: two variants.
C25_Witness ==
    /\ VariantsReturned
    /\ disp_opts = [edge_values |-> "both", method |-> "var-log"]
    /\ Len(variants) = 2

\* ------------------------------------------------------------------ C26

\* <edge-kind>_<statistic>[_log] for the fields of a variant.
NameByConvention(v) ==
    (IF v.edge_values = "kMasses" THEN "masses" ELSE "imbalances")
    \o "_"
    \o (CASE v.dispersion_method = "kStandardDeviation"     -> "sd"
          [] v.dispersion_method = "kVariance"              -> "var"
          [] v.dispersion_method = "kCoeffcientOfVariation" -> "cv"
          [] v.dispersion_method = "kIndexOfDispersion"     -> "vmr")
    \o (IF v.log_scaling THEN "_log" ELSE "")

\* C26: every variant of the list has the name <edge-kind>_<statistic>[_log]
\* of its own fields, with the suffix _log exactly when it is log scaled, and
\* the names of one list differ pairwise: no two variants of a run write to
\* the same output file.
C26_NamesAgreeWithFields ==
    /\ \A k \in 1..Len(variants) : variants[k].name = NameByConvention(variants[k])
    /\ \A i, j \in 1..Len(variants) : i # j => variants[i].name # variants[j].name

\* The full list, with the log-scaled variance of the imbalances in it.
C26_Witness ==
    /\ VariantsReturned
    /\ Len(variants) = 12
    /\ variants[12].name = "imbalances_var_log"
    /\ variants[3].name = "masses_cv"

====
